---- MODULE Spec2Model ----
(***************************************************************************)
(* A model of SimpleVector<Type> (src/simple-vector/simple_vector.h) with  *)
(* Type = int, so that moving an element is copying it.                    *)
(*                                                                         *)
(* The heap is explicit: every buffer is a block at an address, and a      *)
(* vector holds the address of its block (or Null).  A read or a write of  *)
(* a slot outside the block it is addressed through is undefined           *)
(* behaviour; the step that performs it raises ub and ends in one of the   *)
(* outcomes listed in Outcome, after which the program is not followed.    *)
(*                                                                         *)
(* array_ptr.h is not part of the sources; ArrayPtr is modelled from the   *)
(* collaborator contract of the specification (operators ArrayPtr...).     *)
(***************************************************************************)
EXTENDS Integers, Sequences, FiniteSets, TLC

VARIABLES
    vec,     \* vec[o]: the members of object o (alive, storage_, size_, capacity_)
    heap,    \* heap[p]: the block at address p (alive, data)
    last,    \* the call that produced this state: its name, or what it threw
    ub,      \* TRUE once a call has accessed a slot outside its block or hangs
    log,     \* SpecPush only: the values of the completed PushBack calls, in order
    script,  \* SpecGrow only: how many steps of the example trace have been run (-1: left it)
    track    \* SpecCopy only: the object of the last call, and the pair <<source, copy>> of
             \* the last copy construction while only mutators and accessors were called since

vars == <<vec, heap, last, ub, log, script, track>>

----------------------------------------------------------------------------
(* Bounds of the model *)

\* Spec: the heap's size: slots allocated when a call has returned
MaxHeap == 3
\* SpecCopy: the heap's size
MaxHeapCopy == 2
\* SpecPush: number of PushBack calls
MaxPush == 5
\* SpecGrow: largest size reached by PushBack / Insert
MaxGrow == 5
\* the width of size_t in bits (64 in the build; the doubling of Resize wraps
\* the same way at every width)
SizeBits == 4

Objs == {"a", "b"}
Null == 0
Addrs == 1 .. (Cardinality(Objs) + 1)

\* Type{} for Type = int (simple_vector.h:43, 355)
Default == 0
\* element values of Spec, and of SpecPush and SpecGrow (the example trace's)
Values == {0, 1}
ValuesGrow == {1, 2, 3, 5, 9}

NoArg == -1

\* size_t: values 0 .. SizeMax, arithmetic modulo SizeMax + 1
RECURSIVE PowerOfTwo(_)
PowerOfTwo(n) == IF n = 0 THEN 1 ELSE 2 * PowerOfTwo(n - 1)
SizeMax == PowerOfTwo(SizeBits) - 1

----------------------------------------------------------------------------
(* ReserveProxyObj and the free function Reserve (simple_vector.h:13-31) *)

ReserveProxyObj(capacity_to_reserve) == [value |-> capacity_to_reserve]
GetValue(proxy) == proxy.value
ReserveFn(capacity_to_reserve) == ReserveProxyObj(capacity_to_reserve)

----------------------------------------------------------------------------
(* ArrayPtr: the raw buffer owner (from the specification's contract).     *)
(* A memory m is [h |-> heap, bad |-> an access outside a block happened,  *)
(* oom |-> the next operator new[] fails, thrown |-> it has failed and     *)
(* std::bad_alloc is propagating, hung |-> the call is in a loop that      *)
(* cannot end].                                                            *)

FreeBlock == [alive |-> FALSE, data |-> <<>>]
DefaultData(n) == [i \in 1 .. n |-> Default]

\* number of slots allocated behind pointer p
Slots(h, p) == IF p = Null \/ ~h[p].alive THEN 0 ELSE Len(h[p].data)

FreeAddrs(h) == {p \in Addrs : ~h[p].alive}
NewAddr(h) == CHOOSE p \in FreeAddrs(h) : \A q \in FreeAddrs(h) : p <= q

\* ArrayPtr(size): no allocation for 0, else a block of size default-valued slots,
\* or std::bad_alloc when operator new[] fails
ArrayPtrPtr(h, n) == IF n = 0 THEN Null ELSE NewAddr(h)
ArrayPtrNew(m, n) ==
    IF n = 0 THEN m
    ELSE IF m.oom THEN [m EXCEPT !.thrown = TRUE]
    ELSE [m EXCEPT !.h[NewAddr(m.h)] = [alive |-> TRUE, data |-> DefaultData(n)]]

\* ~ArrayPtr(): releases the block, if any
ArrayPtrDelete(m, p) == IF p = Null THEN m ELSE [m EXCEPT !.h[p] = FreeBlock]

\* raw_ptr_[i] read; a read outside the block yields an indeterminate value
Indeterminate == NoArg
Rd(m, p, i) == IF i < Slots(m.h, p) THEN m.h[p].data[i + 1] ELSE Indeterminate
RdBad(m, p, i) == i >= Slots(m.h, p)

\* raw_ptr_[i] = x; a write outside the block is dropped and recorded
Wr(m, p, i, x) ==
    IF i < Slots(m.h, p) THEN [m EXCEPT !.h[p].data[i + 1] = x]
    ELSE [m EXCEPT !.bad = TRUE]

Mem(h) == [h |-> h, bad |-> FALSE, oom |-> FALSE, thrown |-> FALSE, hung |-> FALSE]
\* the memory of a call whose allocation succeeds (okAlloc) or fails
MemAlloc(h, okAlloc) == [Mem(h) EXCEPT !.oom = ~okAlloc]

----------------------------------------------------------------------------
(* <algorithm> on int slots; positions are slot indexes from 0 *)

MarkBad(m, c) == IF c THEN [m EXCEPT !.bad = TRUE] ELSE m

\* std::move / std::copy (first, last, d_first): forward, n = last - first slots
RECURSIVE StdMove(_, _, _, _, _, _)
StdMove(m, sp, first, n, dp, d_first) ==
    IF n < 0 THEN MarkBad(m, TRUE)
    ELSE IF n = 0 THEN m
    ELSE StdMove(Wr(MarkBad(m, RdBad(m, sp, first)), dp, d_first, Rd(m, sp, first)),
                 sp, first + 1, n - 1, dp, d_first + 1)

\* std::move_backward(first, last, d_last) inside one block: from the back
RECURSIVE StdMoveBackward(_, _, _, _, _)
StdMoveBackward(m, p, first, last_, d_last) ==
    IF last_ <= first THEN m
    ELSE StdMoveBackward(
             Wr(MarkBad(m, RdBad(m, p, last_ - 1)), p, d_last - 1, Rd(m, p, last_ - 1)),
             p, first, last_ - 1, d_last - 1)

\* std::fill(first, last, value); also std::copy from an initializer_list
RECURSIVE StdFill(_, _, _, _, _)
StdFill(m, p, first, last_, value) ==
    IF first >= last_ THEN m
    ELSE StdFill(Wr(m, p, first, value), p, first + 1, last_, value)

RECURSIVE CopyInit(_, _, _, _)
CopyInit(m, p, init, i) ==
    IF i > Len(init) THEN m
    ELSE CopyInit(Wr(m, p, i - 1, init[i]), p, init, i + 1)

\* FillWithDefault(first, last): for (it = first; it != last; it++) *it = Type{}
\* (first > last never meets last: the loop runs off the block)
FillWithDefault(m, p, first, last_) ==
    IF first > last_ THEN MarkBad(StdFill(m, p, first, Slots(m.h, p), Default), TRUE)
    ELSE StdFill(m, p, first, last_, Default)

----------------------------------------------------------------------------
(* The members of SimpleVector as functions of (s, m): s the object's      *)
(* members, m the memory.  Each returns [s, m, ret].                       *)

Dead == [alive |-> FALSE, storage |-> Null, size |-> 0, capacity |-> 0]
\* SimpleVector() noexcept = default, with the member initialisers
Fresh == [alive |-> TRUE, storage |-> Null, size |-> 0, capacity |-> 0]

Res(s, m, ret) == [s |-> s, m |-> m, ret |-> ret]

\* live elements [0, size) as the iterators begin()..end() see them
RECURSIVE ReadRange(_, _, _, _)
ReadRange(h, p, i, n) ==
    IF n <= 0 THEN <<>>
    ELSE <<Rd(Mem(h), p, i)>> \o ReadRange(h, p, i + 1, n - 1)
Live(s, h) == ReadRange(h, s.storage, 0, s.size)

GetSize(s) == s.size
GetCapacity(s) == s.capacity
IsEmpty(s) == s.size = 0

\* SimpleVector(size_t size, const Type& value)
SizedCtorOp(m, size, value) ==
    LET p == ArrayPtrPtr(m.h, size)
        m1 == ArrayPtrNew(m, size)
    IN IF m1.thrown THEN Res(Dead, m1, NoArg)
       ELSE Res([alive |-> TRUE, storage |-> p, size |-> size, capacity |-> size],
                StdFill(m1, p, 0, size, value), NoArg)

\* SimpleVector(std::initializer_list<Type> init)
InitListCtorOp(m, init) ==
    LET p == ArrayPtrPtr(m.h, Len(init))
        m1 == ArrayPtrNew(m, Len(init))
    IN IF m1.thrown THEN Res(Dead, m1, NoArg)
       ELSE Res([alive |-> TRUE, storage |-> p, size |-> Len(init), capacity |-> Len(init)],
                CopyInit(m1, p, init, 1), NoArg)

\* mutant: the copy takes the capacity of other
CopyCtorOp_Capacity(m, other) ==
    LET p == ArrayPtrPtr(m.h, other.capacity)
        m1 == ArrayPtrNew(m, other.capacity)
    IN IF m1.thrown THEN Res(Dead, m1, NoArg)
       ELSE Res([alive |-> TRUE, storage |-> p, size |-> other.size,
                 capacity |-> other.capacity],
                StdMove(m1, other.storage, 0, other.size, p, 0), NoArg)

\* SimpleVector(const SimpleVector& other)
CopyCtorOp(m, other) ==
    LET p == ArrayPtrPtr(m.h, other.size)
        m1 == ArrayPtrNew(m, other.size)
    IN IF m1.thrown THEN Res(Dead, m1, NoArg)
       ELSE Res([alive |-> TRUE, storage |-> p, size |-> other.size, capacity |-> other.size],
                StdMove(m1, other.storage, 0, other.size, p, 0), NoArg)

\* SimpleVector(SimpleVector&& other): the members are initialised in the order
\* they are declared (storage_, size_, capacity_); both std::exchange calls are on
\* other.size_.  Returns the new object in s and what is left of other in ret.
MoveCtorOp(m, other) ==
    LET o1 == [other EXCEPT !.storage = Null]
        size_ == o1.size
        o2 == [o1 EXCEPT !.size = 0]
        capacity_ == o2.size
        o3 == [o2 EXCEPT !.size = 0]
    IN Res([alive |-> TRUE, storage |-> other.storage, size |-> size_, capacity |-> capacity_],
           m, o3)

\* mutant: capacity_ is assigned before the new buffer is allocated
ReserveOp_CapacityFirst(s, m, new_capacity) ==
    IF new_capacity > s.capacity
    THEN LET tmp == ArrayPtrPtr(m.h, new_capacity)
             m1 == ArrayPtrNew(m, new_capacity)
             m2 == StdMove(m1, s.storage, 0, s.size, tmp, 0)
         IN IF m1.thrown THEN Res([s EXCEPT !.capacity = new_capacity], m1, NoArg)
            ELSE Res([s EXCEPT !.storage = tmp, !.capacity = new_capacity],
                     ArrayPtrDelete(m2, s.storage), NoArg)
    ELSE Res(s, m, NoArg)

\* void Reserve(size_t new_capacity)
ReserveOp(s, m, new_capacity) ==
    IF new_capacity > s.capacity
    THEN LET tmp == ArrayPtrPtr(m.h, new_capacity)
             m1 == ArrayPtrNew(m, new_capacity)
             m2 == StdMove(m1, s.storage, 0, s.size, tmp, 0)
         IN IF m1.thrown THEN Res(s, m1, NoArg)
            ELSE Res([s EXCEPT !.storage = tmp, !.capacity = new_capacity],
                     ArrayPtrDelete(m2, s.storage), NoArg)
    ELSE Res(s, m, NoArg)

\* mutant: the reservation goes through the sized constructor
ReserveCtorOp_Sized(m, capacity_to_reserve) ==
    SizedCtorOp(m, GetValue(capacity_to_reserve), Default)

\* SimpleVector(ReserveProxyObj capacity_to_reserve): inside the class the name
\* Reserve is the member Reserve(size_t)
ReserveCtorOp(m, capacity_to_reserve) ==
    LET r == ReserveOp(Fresh, m, GetValue(capacity_to_reserve))
    IN IF r.m.thrown THEN Res(Dead, r.m, NoArg) ELSE r

\* void swap(SimpleVector& other): returns this in s and other in ret
SwapOp(s, m, other) ==
    Res([s EXCEPT !.storage = other.storage, !.size = other.size, !.capacity = other.capacity],
        m,
        [other EXCEPT !.storage = s.storage, !.size = s.size, !.capacity = s.capacity])

\* ~SimpleVector(): the ArrayPtr member releases its block
DtorOp(s, m) == Res(Dead, ArrayPtrDelete(m, s.storage), NoArg)

\* a const Type& argument: a value of the caller's, or one of the vector's own slots
Ext(x) == [own |-> FALSE, p |-> Null, i |-> NoArg, x |-> x]
Own(s, j) == [own |-> TRUE, p |-> s.storage, i |-> j, x |-> NoArg]
Val(m, ref) == IF ref.own THEN Rd(m, ref.p, ref.i) ELSE ref.x
ValBad(m, ref) == ref.own /\ RdBad(m, ref.p, ref.i)

\* an iterator or a reference: slot i of the block at p
Ref(p, i) == [p |-> p, i |-> i]
NoRet == Ref(Null, NoArg)

\* new_capacity of Resize: capacity_ == 0 ? 1 : capacity_, doubled while new_size > it.
\* The product wraps; once it is 0 the loop cannot end (result 0: no capacity found).
RECURSIVE Doubled(_, _)
Doubled(new_capacity, new_size) ==
    IF new_size > new_capacity
    THEN IF new_capacity = 0 THEN 0
         ELSE Doubled((new_capacity * 2) % (SizeMax + 1), new_size)
    ELSE new_capacity

\* void Resize(size_t new_size)
ResizeOp(s, m, new_size) ==
    IF new_size > s.capacity
    THEN LET new_capacity == Doubled(IF s.capacity = 0 THEN 1 ELSE s.capacity, new_size)
             tmp == ArrayPtrPtr(m.h, new_capacity)
             m1 == ArrayPtrNew(m, new_capacity)
             m2 == StdMove(m1, s.storage, 0, s.size, tmp, 0)
             m3 == FillWithDefault(m2, tmp, s.size, new_capacity)
         IN IF new_capacity = 0 THEN Res(s, [m EXCEPT !.hung = TRUE], NoRet)
            ELSE IF m1.thrown THEN Res(s, m1, NoRet)
            ELSE Res([s EXCEPT !.storage = tmp, !.size = new_size, !.capacity = new_capacity],
                     ArrayPtrDelete(m3, s.storage), NoRet)
    ELSE IF new_size > s.size
    THEN Res([s EXCEPT !.size = new_size],
             FillWithDefault(m, s.storage, s.size, new_size), NoRet)
    ELSE Res([s EXCEPT !.size = new_size], m, NoRet)

\* mutant: the full vector grows by one slot
InsertOp_ByOne(s, m, distance, value) ==
    IF s.size = s.capacity
    THEN LET new_capacity == s.capacity + 1
             tmp == ArrayPtrPtr(m.h, new_capacity)
             m1 == ArrayPtrNew(m, new_capacity)
             m2 == StdMove(m1, s.storage, 0, distance, tmp, 0)
             m3 == Wr(MarkBad(m2, ValBad(m2, value)), tmp, distance, Val(m2, value))
             m4 == StdMove(m3, s.storage, distance, s.size - distance, tmp, distance + 1)
         IN IF m1.thrown THEN Res(s, m1, NoRet)
            ELSE Res([s EXCEPT !.storage = tmp, !.size = s.size + 1, !.capacity = new_capacity],
                     ArrayPtrDelete(m4, s.storage), Ref(tmp, distance))
    ELSE LET m1 == StdMoveBackward(m, s.storage, distance, s.size, s.size + 1)
             m2 == Wr(MarkBad(m1, ValBad(m1, value)), s.storage, distance, Val(m1, value))
         IN Res([s EXCEPT !.size = s.size + 1], m2, Ref(s.storage, distance))

\* mutant: the full vector grows by a factor of three
InsertOp_Triple(s, m, distance, value) ==
    IF s.size = s.capacity
    THEN LET new_capacity == IF s.capacity = 0 THEN 1 ELSE s.capacity * 3
             tmp == ArrayPtrPtr(m.h, new_capacity)
             m1 == ArrayPtrNew(m, new_capacity)
             m2 == StdMove(m1, s.storage, 0, distance, tmp, 0)
             m3 == Wr(MarkBad(m2, ValBad(m2, value)), tmp, distance, Val(m2, value))
             m4 == StdMove(m3, s.storage, distance, s.size - distance, tmp, distance + 1)
         IN IF m1.thrown THEN Res(s, m1, NoRet)
            ELSE Res([s EXCEPT !.storage = tmp, !.size = s.size + 1, !.capacity = new_capacity],
                     ArrayPtrDelete(m4, s.storage), Ref(tmp, distance))
    ELSE LET m1 == StdMoveBackward(m, s.storage, distance, s.size, s.size + 1)
             m2 == Wr(MarkBad(m1, ValBad(m1, value)), s.storage, distance, Val(m1, value))
         IN Res([s EXCEPT !.size = s.size + 1], m2, Ref(s.storage, distance))

\* Iterator Insert(ConstIterator pos, const Type& value), distance = pos - begin();
\* the Type&& overload is the same code with std::move(value)
InsertOp(s, m, distance, value) ==
    IF s.size = s.capacity
    THEN LET new_capacity == IF s.capacity = 0 THEN 1 ELSE s.capacity * 2
             tmp == ArrayPtrPtr(m.h, new_capacity)
             m1 == ArrayPtrNew(m, new_capacity)
             m2 == StdMove(m1, s.storage, 0, distance, tmp, 0)
             m3 == Wr(MarkBad(m2, ValBad(m2, value)), tmp, distance, Val(m2, value))
             m4 == StdMove(m3, s.storage, distance, s.size - distance, tmp, distance + 1)
         IN IF m1.thrown THEN Res(s, m1, NoRet)
            ELSE Res([s EXCEPT !.storage = tmp, !.size = s.size + 1, !.capacity = new_capacity],
                     ArrayPtrDelete(m4, s.storage), Ref(tmp, distance))
    ELSE LET m1 == StdMoveBackward(m, s.storage, distance, s.size, s.size + 1)
             m2 == Wr(MarkBad(m1, ValBad(m1, value)), s.storage, distance, Val(m1, value))
         IN Res([s EXCEPT !.size = s.size + 1], m2, Ref(s.storage, distance))

\* void PushBack(const Type& item) / PushBack(Type&& item): Insert(end(), item)
PushBackOp(s, m, item) == Res(InsertOp(s, m, s.size, item).s,
                                 InsertOp(s, m, s.size, item).m, NoRet)

\* void PopBack() noexcept
PopBackOp(s, m) == Res([s EXCEPT !.size = s.size - 1], m, NoRet)

\* mutant: the shift starts at the erased slot instead of the one after it
EraseOp_FromPos(s, m, distance) ==
    LET m1 == StdMove(m, s.storage, distance, s.size - (distance + 1), s.storage, distance)
    IN Res([s EXCEPT !.size = s.size - 1], m1, Ref(s.storage, distance))

\* Iterator Erase(ConstIterator pos), distance = pos - begin()
EraseOp(s, m, distance) ==
    LET m1 == StdMove(m, s.storage, distance + 1, s.size - (distance + 1), s.storage, distance)
    IN Res([s EXCEPT !.size = s.size - 1], m1, Ref(s.storage, distance))

\* void Clear() noexcept
ClearOp(s, m) == Res([s EXCEPT !.size = 0], m, NoRet)

\* Type& operator[](size_t index) noexcept, and the const overload
IndexOp(s, index) == Ref(s.storage, index)

\* mutant: the check is index > size_
AtThrows_Greater(s, index) == index > s.size

\* Type& At(size_t index), and the const overload: [thrown, ref]
AtThrows(s, index) == index >= s.size
AtOp(s, index) ==
    IF AtThrows(s, index) THEN [thrown |-> TRUE, ref |-> NoRet]
    ELSE [thrown |-> FALSE, ref |-> Ref(s.storage, index)]

\* mutant: the temporary is swapped before it is constructed from rhs
CopyAssignOp_SwapFirst(s, m, rhs) ==
    LET sw == SwapOp(s, m, Fresh)
        tmp == CopyCtorOp(sw.m, rhs)
    IN IF tmp.m.thrown THEN Res(sw.s, DtorOp(sw.ret, tmp.m).m, rhs)
       ELSE Res(tmp.s, DtorOp(sw.ret, tmp.m).m, rhs)

\* operator=(const SimpleVector& rhs) with this != &rhs: tmp(rhs); swap(tmp); ~tmp
CopyAssignOp(s, m, rhs) ==
    LET tmp == CopyCtorOp(m, rhs)
        sw == SwapOp(s, tmp.m, tmp.s)
    IN IF tmp.m.thrown THEN Res(s, tmp.m, rhs)
       ELSE Res(sw.s, DtorOp(sw.ret, sw.m).m, rhs)

\* operator=(SimpleVector&& rhs) with this != &rhs: tmp(std::move(rhs)); swap(tmp); ~tmp
\* returns this in s and what is left of rhs in ret
MoveAssignOp(s, m, rhs) ==
    LET tmp == MoveCtorOp(m, rhs)
        sw == SwapOp(s, tmp.m, tmp.s)
    IN Res(sw.s, DtorOp(sw.ret, sw.m).m, tmp.ret)

----------------------------------------------------------------------------
(* The calls of a program that uses the class.  Every call is one step.    *)

Call(op, o, other) == op
Returned(call, ret, err) == IF err \in {"none", "ub"} THEN call ELSE err
None == "-"

\* The address operator new returns is arbitrary and the class never compares
\* block addresses, so states are kept up to a renaming of the addresses: the blocks
\* are numbered in the order of the objects that hold them, then the other blocks.
ObjSeq == <<"a", "b">>
RECURSIVE Ascending(_)
Ascending(S) ==
    IF S = {} THEN <<>>
    ELSE LET x == CHOOSE y \in S : \A z \in S : y <= z IN <<x>> \o Ascending(S \ {x})
RECURSIVE Held(_, _, _)
Held(v, i, acc) ==
    IF i > Len(ObjSeq) THEN acc
    ELSE LET p == v[ObjSeq[i]].storage
         IN Held(v, i + 1,
                 IF p = Null \/ \E k \in 1 .. Len(acc) : acc[k] = p THEN acc ELSE Append(acc, p))
AddrOrder(v, h) ==
    LET held == Held(v, 1, <<>>)
        inHeld == {held[k] : k \in 1 .. Len(held)}
    IN held \o Ascending({p \in Addrs \ inHeld : h[p].alive})
            \o Ascending({p \in Addrs \ inHeld : ~h[p].alive})
Renamed(order, p) == IF p = Null THEN Null ELSE CHOOSE k \in Addrs : order[k] = p
Norm(v, h) ==
    LET order == AddrOrder(v, h)
    IN [v |-> [o \in Objs |-> [v[o] EXCEPT !.storage = Renamed(order, v[o].storage)]],
        h |-> [k \in Addrs |-> h[order[k]]]]

\* The outcomes of a call that would leave vec = newvec and the memory m
\* (m.thrown: the call left by std::bad_alloc).
\* A call in a loop that cannot end (m.hung) never returns: the program stops there.
\* A call that accessed a slot outside a block (m.bad) has undefined behaviour:
\* it stops before any effect, or it runs on with the stray writes lost, or with
\* one of them changing a slot of some allocated block.
Outcome(call, newvec, m, ret) ==
    IF m.hung
    THEN /\ vec' = vec /\ heap' = heap
         /\ last' = Returned(call, ret, "ub")
         /\ ub' = TRUE
    ELSE IF ~m.bad
    THEN /\ LET n == Norm(newvec, m.h) IN vec' = n.v /\ heap' = n.h
         /\ last' = Returned(call, ret, IF m.thrown THEN "bad_alloc" ELSE "none")
         /\ ub' = FALSE
    ELSE /\ ub' = TRUE
         /\ last' = Returned(call, ret, "ub")
         /\ \/ vec' = vec /\ heap' = heap
            \/ LET n == Norm(newvec, m.h) IN vec' = n.v /\ heap' = n.h
            \/ \E q \in Addrs :
                  /\ m.h[q].alive
                  /\ \E j \in 1 .. Len(m.h[q].data) : \E x \in Values \ {m.h[q].data[j]} :
                        LET n == Norm(newvec, [m.h EXCEPT ![q].data[j] = x])
                        IN vec' = n.v /\ heap' = n.h

\* The call throws err before it changed anything
Throws(call, err) ==
    /\ UNCHANGED <<vec, heap, ub>>
    /\ last' = Returned(call, NoRet, err)

CanCall(o) == ~ub /\ vec[o].alive
CanConstruct(o) == ~ub /\ ~vec[o].alive

DefaultCtor(o) ==
    /\ CanConstruct(o)
    /\ Outcome(Call("SimpleVector()", o, None),
               [vec EXCEPT ![o] = Fresh], Mem(heap), NoRet)

\* SimpleVector(size, value); SimpleVector(size) is SimpleVector(size, Type{})
SizedCtor(o, size, value, okAlloc) ==
    LET call == Call("SimpleVector(size,value)", o, None)
        r == SizedCtorOp(MemAlloc(heap, okAlloc), size, value)
    IN /\ CanConstruct(o)
       /\ okAlloc \/ size > 0
       /\ Outcome(call, [vec EXCEPT ![o] = r.s], r.m, NoRet)

InitListCtor(o, init, okAlloc) ==
    LET call == Call("SimpleVector(init)", o, None)
        r == InitListCtorOp(MemAlloc(heap, okAlloc), init)
    IN /\ CanConstruct(o)
       /\ okAlloc \/ Len(init) > 0
       /\ Outcome(call, [vec EXCEPT ![o] = r.s], r.m, NoRet)

\* SimpleVector v(Reserve(c))
ReserveCtor(o, c, okAlloc) ==
    LET call == Call("SimpleVector(Reserve(c))", o, None)
        r == ReserveCtorOp(MemAlloc(heap, okAlloc), ReserveFn(c))
    IN /\ CanConstruct(o)
       /\ okAlloc \/ c > 0
       /\ Outcome(call, [vec EXCEPT ![o] = r.s], r.m, NoRet)

CopyCtor(o, other, okAlloc) ==
    LET call == Call("SimpleVector(const&)", o, other)
        r == CopyCtorOp(MemAlloc(heap, okAlloc), vec[other])
    IN /\ CanConstruct(o) /\ vec[other].alive
       /\ okAlloc \/ vec[other].size > 0
       /\ Outcome(call, [vec EXCEPT ![o] = r.s], r.m, NoRet)

MoveCtor(o, other) ==
    LET call == Call("SimpleVector(&&)", o, other)
        r == MoveCtorOp(Mem(heap), vec[other])
    IN /\ CanConstruct(o) /\ vec[other].alive
       /\ Outcome(call, [vec EXCEPT ![o] = r.s, ![other] = r.ret], r.m, NoRet)

Dtor(o) ==
    LET r == DtorOp(vec[o], Mem(heap))
    IN /\ CanCall(o)
       /\ Outcome(Call("~SimpleVector()", o, None),
                  [vec EXCEPT ![o] = r.s], r.m, NoRet)

CopyAssign(o, rhs, okAlloc) ==
    LET call == Call("operator=(const&)", o, rhs)
        r == CopyAssignOp(vec[o], MemAlloc(heap, okAlloc), vec[rhs])
    IN /\ CanCall(o) /\ vec[rhs].alive
       /\ okAlloc \/ (o # rhs /\ vec[rhs].size > 0)
       /\ IF o = rhs THEN Outcome(call, vec, Mem(heap), NoRet)
          ELSE Outcome(call, [vec EXCEPT ![o] = r.s], r.m, NoRet)

MoveAssign(o, rhs) ==
    LET call == Call("operator=(&&)", o, rhs)
        r == MoveAssignOp(vec[o], Mem(heap), vec[rhs])
    IN /\ CanCall(o) /\ vec[rhs].alive
       /\ IF o = rhs THEN Outcome(call, vec, Mem(heap), NoRet)
          ELSE Outcome(call, [vec EXCEPT ![o] = r.s, ![rhs] = r.ret], r.m, NoRet)

Swap(o, other) ==
    LET call == Call("swap", o, other)
        r == SwapOp(vec[o], Mem(heap), vec[other])
    IN /\ CanCall(o) /\ vec[other].alive
       /\ Outcome(call, [vec EXCEPT ![other] = r.ret, ![o] = r.s], r.m, NoRet)

Resize(o, new_size, okAlloc) ==
    LET call == Call("Resize", o, None)
        r == ResizeOp(vec[o], MemAlloc(heap, okAlloc), new_size)
    IN /\ CanCall(o)
       /\ okAlloc \/ (new_size > vec[o].capacity /\ ~r.m.hung)
       /\ Outcome(call, [vec EXCEPT ![o] = r.s], r.m, r.ret)

Reserve(o, new_capacity, okAlloc) ==
    LET call == Call("Reserve", o, None)
        r == ReserveOp(vec[o], MemAlloc(heap, okAlloc), new_capacity)
    IN /\ CanCall(o)
       /\ okAlloc \/ new_capacity > vec[o].capacity
       /\ Outcome(call, [vec EXCEPT ![o] = r.s], r.m, NoRet)

\* item: Ext(x) or Own(vec[o], j) with j < size
PushBack(o, item, okAlloc) ==
    LET call == Call("PushBack", o, None)
        r == PushBackOp(vec[o], MemAlloc(heap, okAlloc), item)
    IN /\ CanCall(o)
       /\ okAlloc \/ vec[o].size = vec[o].capacity
       /\ Outcome(call, [vec EXCEPT ![o] = r.s], r.m, r.ret)

\* precondition: pos in [begin(), end()], that is distance in 0 .. size
Insert(o, distance, value, okAlloc) ==
    LET call == Call("Insert", o, None)
        r == InsertOp(vec[o], MemAlloc(heap, okAlloc), distance, value)
    IN /\ CanCall(o)
       /\ distance \in 0 .. vec[o].size
       /\ okAlloc \/ vec[o].size = vec[o].capacity
       /\ Outcome(call, [vec EXCEPT ![o] = r.s], r.m, r.ret)

\* precondition: the vector is not empty
PopBack(o) ==
    LET r == PopBackOp(vec[o], Mem(heap))
    IN /\ CanCall(o)
       /\ vec[o].size > 0
       /\ Outcome(Call("PopBack", o, None),
                  [vec EXCEPT ![o] = r.s], r.m, NoRet)

\* precondition: pos in [begin(), end()), that is distance in 0 .. size - 1
Erase(o, distance) ==
    LET r == EraseOp(vec[o], Mem(heap), distance)
    IN /\ CanCall(o)
       /\ distance \in 0 .. vec[o].size - 1
       /\ Outcome(Call("Erase", o, None),
                  [vec EXCEPT ![o] = r.s], r.m, r.ret)

Clear(o) ==
    LET r == ClearOp(vec[o], Mem(heap))
    IN /\ CanCall(o)
       /\ Outcome(Call("Clear", o, None),
                  [vec EXCEPT ![o] = r.s], r.m, NoRet)

\* v.At(index), any index
At(o, index) ==
    LET call == Call("At", o, None)
        r == AtOp(vec[o], index)
    IN /\ CanCall(o)
       /\ IF r.thrown THEN Throws(call, "out_of_range")
          ELSE Outcome(call, vec, Mem(heap), r.ref)

\* v[index] = x; precondition: index < size
SetAt(o, index, x) ==
    LET ref == IndexOp(vec[o], index)
    IN /\ CanCall(o)
       /\ index \in 0 .. vec[o].size - 1
       /\ Outcome(Call("operator[]=", o, None),
                  vec, Wr(Mem(heap), ref.p, ref.i, x), ref)

----------------------------------------------------------------------------
(* Spec: a program with the objects of Objs and every public operation.    *)
(* SpecCopy: the same program, with track kept and a smaller heap.         *)

Start == "start"
NoTrack == [on |-> FALSE, pair |-> <<>>, who |-> None]

InitObjs(v) ==
    /\ vec = v
    /\ heap = [p \in Addrs |-> FreeBlock]
    /\ ub = FALSE

Init ==
    /\ InitObjs([o \in Objs |-> Dead])
    /\ last = Start
    /\ log = <<>>
    /\ script = -1
    /\ track = NoTrack

InitCopy ==
    /\ InitObjs([o \in Objs |-> Dead])
    /\ last = Start
    /\ log = <<>>
    /\ script = -1
    /\ track = [on |-> TRUE, pair |-> <<>>, who |-> None]

\* the model's bound on the heap
RECURSIVE Sum(_, _)
Sum(f, S) == IF S = {} THEN 0 ELSE LET x == CHOOSE y \in S : TRUE IN f[x] + Sum(f, S \ {x})
Allocated(h) == Sum([p \in Addrs |-> Slots(h, p)], Addrs)
Bounded == Allocated(heap) <= IF track.on THEN MaxHeapCopy ELSE MaxHeap

\* kind: "copy" for the copy constructor copying other into o, "keep" for the
\* mutators and accessors of one object, "end" for every other call
Tracked(o, other, kind) ==
    IF ~track.on THEN track
    ELSE [on |-> TRUE,
          who |-> o,
          pair |-> IF kind = "copy" THEN (IF last' = "bad_alloc" THEN <<>> ELSE <<other, o>>)
                   ELSE IF kind = "keep" THEN track.pair
                   ELSE <<>>]
Frame(o, other, kind) ==
    /\ track' = Tracked(o, other, kind)
    /\ Bounded'
    /\ UNCHANGED <<log, script>>

Sizes == 0 .. MaxHeap
Inits == UNION {[1 .. n -> Values] : n \in 0 .. 2}
Items(o, V) == {Ext(x) : x \in V} \cup {Own(vec[o], j) : j \in 0 .. vec[o].size - 1}

Next ==
    \/ \E o \in Objs : DefaultCtor(o) /\ Frame(o, None, "end")
    \/ \E o \in Objs, n \in Sizes, x \in Values, ok \in BOOLEAN :
          SizedCtor(o, n, x, ok) /\ Frame(o, None, "end")
    \/ \E o \in Objs, init \in Inits, ok \in BOOLEAN :
          InitListCtor(o, init, ok) /\ Frame(o, None, "end")
    \/ \E o \in Objs, c \in Sizes, ok \in BOOLEAN :
          ReserveCtor(o, c, ok) /\ Frame(o, None, "end")
    \/ \E o, other \in Objs, ok \in BOOLEAN :
          CopyCtor(o, other, ok) /\ Frame(o, other, "copy")
    \/ \E o, other \in Objs : MoveCtor(o, other) /\ Frame(o, other, "end")
    \/ \E o \in Objs : Dtor(o) /\ Frame(o, None, "end")
    \/ \E o, rhs \in Objs, ok \in BOOLEAN : CopyAssign(o, rhs, ok) /\ Frame(o, rhs, "end")
    \/ \E o, rhs \in Objs : MoveAssign(o, rhs) /\ Frame(o, rhs, "end")
    \/ \E o, other \in Objs : Swap(o, other) /\ Frame(o, other, "end")
    \/ \E o \in Objs, n \in Sizes \cup {SizeMax}, ok \in BOOLEAN :
          Resize(o, n, ok) /\ Frame(o, None, "keep")
    \/ \E o \in Objs, n \in Sizes, ok \in BOOLEAN : Reserve(o, n, ok) /\ Frame(o, None, "keep")
    \/ \E o \in Objs, ok \in BOOLEAN :
          \E item \in Items(o, Values) : PushBack(o, item, ok) /\ Frame(o, None, "keep")
    \/ \E o \in Objs, ok \in BOOLEAN :
          \E k \in 0 .. vec[o].size, value \in Items(o, Values) :
             Insert(o, k, value, ok) /\ Frame(o, None, "keep")
    \/ \E o \in Objs : PopBack(o) /\ Frame(o, None, "keep")
    \/ \E o \in Objs : \E k \in 0 .. vec[o].size - 1 : Erase(o, k) /\ Frame(o, None, "keep")
    \/ \E o \in Objs : Clear(o) /\ Frame(o, None, "keep")
    \/ \E o \in Objs : \E i \in 0 .. vec[o].capacity + 1 : At(o, i) /\ Frame(o, None, "keep")
    \/ \E o \in Objs, x \in Values :
          \E i \in 0 .. vec[o].size - 1 : SetAt(o, i, x) /\ Frame(o, None, "keep")

Spec == Init /\ [][Next]_vars
SpecCopy == InitCopy /\ [][Next]_vars

----------------------------------------------------------------------------
(* SpecPush: one default-constructed vector and PushBack calls only.       *)
(* SpecGrow: one default-constructed vector, PushBack and Insert calls of  *)
(* values of the caller, every allocation succeeding.                      *)

Grown == "a"

InitPush ==
    /\ InitObjs([o \in Objs |-> IF o = Grown THEN Fresh ELSE Dead])
    /\ last = "SimpleVector()"
    /\ log = <<>>
    /\ script = -1
    /\ track = NoTrack

NextPush ==
    \E ok \in BOOLEAN : \E item \in Items(Grown, ValuesGrow) :
       /\ Len(log) < MaxPush
       /\ PushBack(Grown, item, ok)
       /\ log' = IF last' = "PushBack" THEN Append(log, Val(Mem(heap), item)) ELSE log
       /\ UNCHANGED <<script, track>>

SpecPush == InitPush /\ [][NextPush]_vars

\* The example of the specification (section 8): PushBack(1), PushBack(2),
\* PushBack(3), Insert(begin() + 1, 9), PushBack(5)
Example ==
    << [op |-> "PushBack", k |-> 0, x |-> 1], [op |-> "PushBack", k |-> 1, x |-> 2],
       [op |-> "PushBack", k |-> 2, x |-> 3], [op |-> "Insert", k |-> 1, x |-> 9],
       [op |-> "PushBack", k |-> 4, x |-> 5] >>
Follows(op, k, x) ==
    IF /\ script >= 0 /\ script < Len(Example)
       /\ last' = op
       /\ Example[script + 1] = [op |-> op, k |-> k, x |-> x]
    THEN script + 1 ELSE -1

InitGrow ==
    /\ InitObjs([o \in Objs |-> IF o = Grown THEN Fresh ELSE Dead])
    /\ last = "SimpleVector()"
    /\ log = <<>>
    /\ script = 0
    /\ track = NoTrack

NextGrow ==
    \/ \E x \in ValuesGrow :
          /\ vec[Grown].size < MaxGrow
          /\ PushBack(Grown, Ext(x), TRUE)
          /\ script' = Follows("PushBack", vec[Grown].size, x)
          /\ UNCHANGED <<log, track>>
    \/ \E x \in ValuesGrow : \E k \in 0 .. vec[Grown].size :
          /\ vec[Grown].size < MaxGrow
          /\ Insert(Grown, k, Ext(x), TRUE)
          /\ script' = Follows("Insert", k, x)
          /\ UNCHANGED <<log, track>>

SpecGrow == InitGrow /\ [][NextGrow]_vars

----------------------------------------------------------------------------
(* Observations used by the properties *)

Alive == {o \in Objs : vec[o].alive}
LiveOf(o) == Live(vec[o], heap)
\* what a caller can observe of o: GetSize(), GetCapacity() and the elements
Obs(o) == <<GetSize(vec[o]), GetCapacity(vec[o]), LiveOf(o)>>
Without(s, k) == SubSeq(s, 1, k) \o SubSeq(s, k + 2, Len(s))
With(s, k, x) == SubSeq(s, 1, k) \o <<x>> \o SubSeq(s, k + 1, Len(s))

RECURSIVE PowerOfTwoFrom(_, _)
PowerOfTwoFrom(p, k) == IF p >= k THEN p ELSE PowerOfTwoFrom(2 * p, k)
\* the smallest power of two >= k
SmallestPowerOfTwo(k) == PowerOfTwoFrom(1, k)

----------------------------------------------------------------------------
(* C1: in every reachable state every SimpleVector object, the source and  *)
(* the target of a move included, satisfies 0 <= size <= capacity.         *)
C1_SizeWithinCapacity ==
    \A o \in Alive : 0 <= GetSize(vec[o]) /\ GetSize(vec[o]) <= GetCapacity(vec[o])

(* C2: after the move construction b(std::move(a)) the source a is empty,  *)
(* a.GetSize() = 0 and a.GetCapacity() = 0, and a does not refer to the    *)
(* buffer b now owns.                                                      *)
C2_MovedFromIsEmpty ==
    [][\A o, other \in Objs :
          MoveCtor(o, other) =>
             /\ GetSize(vec'[other]) = 0
             /\ GetCapacity(vec'[other]) = 0
             /\ vec'[other].storage = Null \/ vec'[other].storage # vec'[o].storage]_vars

(* C3: SimpleVector v(Reserve(c)) completes, for every c >= 0, with        *)
(* v.GetSize() = 0 and v.GetCapacity() = c (and a buffer of c slots).      *)
C3_ReserveCtor ==
    \A c \in 0 .. MaxHeap + 1 :
       LET r == ReserveCtorOp(Mem(heap), ReserveFn(c)) IN
       /\ ~r.m.bad
       /\ r.s.alive
       /\ GetSize(r.s) = 0
       /\ GetCapacity(r.s) = c
       /\ Slots(r.m.h, r.s.storage) = c
C3_Witness ==
    /\ last = "SimpleVector(Reserve(c))"
    /\ \E o \in Alive : GetSize(vec[o]) = 0 /\ GetCapacity(vec[o]) = MaxHeap
                        /\ Slots(heap, vec[o].storage) = MaxHeap

(* C4: from a default-constructed vector, after k >= 1 PushBack calls the  *)
(* size is k, the elements are the pushed values in call order, and the    *)
(* capacity is at most the smallest power of two >= k.                     *)
C4_PushBackSequence ==
    LET k == Len(log) IN
    /\ GetSize(vec[Grown]) = k
    /\ LiveOf(Grown) = log
    /\ k >= 1 => GetCapacity(vec[Grown]) <= SmallestPowerOfTwo(k)
    /\ ~ub
C4_Witness ==
    /\ last = "PushBack"
    /\ Len(log) = MaxPush
    /\ \E i, j \in 1 .. Len(log) : log[i] # log[j]
    /\ GetCapacity(vec[Grown]) = SmallestPowerOfTwo(MaxPush)

(* C5: Insert and PushBack change the capacity by this rule: with          *)
(* size = capacity before the call the new capacity is 1 if the old one    *)
(* was 0 and twice the old one otherwise; with size < capacity it is       *)
(* unchanged.  And the example holds: PushBack 1, 2, 3 gives size 3,       *)
(* capacity 4; Insert(begin() + 1, 9) gives [1,9,2,3], size 4, capacity 4; *)
(* PushBack(5) gives capacity 8 and [1,9,2,3,5].                           *)
C5_Rule ==
    LET s == vec[Grown] IN
    last' \in {"PushBack", "Insert"} =>
       /\ s.size = s.capacity =>
             GetCapacity(vec'[Grown]) = IF s.capacity = 0 THEN 1 ELSE 2 * s.capacity
       /\ s.size < s.capacity => GetCapacity(vec'[Grown]) = s.capacity
C5_Example ==
    /\ script = 3 => Obs(Grown) = <<3, 4, <<1, 2, 3>>>>
    /\ script = 4 => Obs(Grown) = <<4, 4, <<1, 9, 2, 3>>>>
    /\ script = 5 => Obs(Grown) = <<5, 8, <<1, 9, 2, 3, 5>>>>
C6_InsertPlacesValue ==
    ~ub => \A o \in Alive : \A k \in 0 .. vec[o].size : \A value \in Items(o, Values) :
              LET r == InsertOp(vec[o], Mem(heap), k, value) IN
              /\ ~r.m.bad
              /\ Live(r.s, r.m.h) = With(LiveOf(o), k, Val(Mem(heap), value))
              /\ GetSize(r.s) = GetSize(vec[o]) + 1
              /\ r.ret = Ref(r.s.storage, k)

(* C7: for every vector and every offset k in 0 .. size,                   *)
(* Erase(Insert(begin() + k, v)) leaves the live sequence and the size as  *)
(* they were before the Insert.                                            *)
C7_InsertEraseRoundTrip ==
    ~ub => \A o \in Alive : \A k \in 0 .. vec[o].size : \A value \in Items(o, Values) :
              LET r == InsertOp(vec[o], Mem(heap), k, value)
                  e == EraseOp(r.s, r.m, r.ret.i)
              IN /\ ~e.m.bad
                 /\ Live(e.s, e.m.h) = LiveOf(o)
                 /\ GetSize(e.s) = GetSize(vec[o])

(* C8: for every non-empty vector with live sequence s and every offset k  *)
(* in 0 .. size - 1, Erase(begin() + k) leaves s without element k, the    *)
(* later elements one slot to the left in order, takes exactly 1 from the  *)
(* size, keeps the capacity and returns an iterator at offset k, which is  *)
(* end() when the last element was erased.                                 *)
C8_Erase ==
    ~ub => \A o \in Alive : \A k \in 0 .. vec[o].size - 1 :
              LET r == EraseOp(vec[o], Mem(heap), k) IN
              /\ ~r.m.bad
              /\ Live(r.s, r.m.h) = Without(LiveOf(o), k)
              /\ GetSize(r.s) = GetSize(vec[o]) - 1
              /\ GetCapacity(r.s) = GetCapacity(vec[o])
              /\ r.ret = Ref(r.s.storage, k)
              /\ k = vec[o].size - 1 => r.ret = Ref(r.s.storage, GetSize(r.s))
C8_Witness ==
    /\ last = "Erase" /\ ~ub
    /\ \E o \in Alive : GetSize(vec[o]) = 2 /\ LiveOf(o) = <<0, 1>>

(* C9: after the copy construction b(a), every sequence of PushBack,       *)
(* Insert, Erase, PopBack, Resize, Reserve, Clear and element assignment   *)
(* on one of a and b leaves the size, the capacity and the live elements   *)
(* of the other unchanged.                                                 *)
C9_CopyIsIndependent ==
    [][(track.pair # <<>> /\ track'.pair = track.pair) =>
          \A o \in Objs \ {track'.who} : Obs(o)' = Obs(o)]_vars

(* C10: At(i) throws out_of_range for every i >= size, also for            *)
(* size <= i < capacity and on an empty vector, and changes nothing; for   *)
(* i < size it returns the element operator[](i) returns.                  *)
C10_AtChecks ==
    \A o \in Alive : \A i \in 0 .. MaxHeap + 1 :
       /\ i >= GetSize(vec[o]) => AtOp(vec[o], i).thrown
       /\ i < GetSize(vec[o]) =>
             ~AtOp(vec[o], i).thrown /\ AtOp(vec[o], i).ref = IndexOp(vec[o], i)
C10_AtChangesNothing ==
    last' \in {"At", "out_of_range"} => vec' = vec /\ heap' = heap /\ ub' = ub
C10_At == []C10_AtChecks /\ [][C10_AtChangesNothing]_vars
C10_Witness ==
    /\ last = "out_of_range"
    /\ \E o \in Alive : 0 < GetSize(vec[o]) /\ GetSize(vec[o]) < GetCapacity(vec[o])
                        /\ Slots(heap, vec[o].storage) = GetCapacity(vec[o])

(* C11: for every vector and every n, Resize(n) sets the size to n, keeps  *)
(* the elements [0, min(oldSize, n)) and makes every element of            *)
(* [oldSize, n) the default value, whatever the slots held before.         *)
(* Resize(0) on a non-empty vector keeps the capacity and gives size 0,    *)
(* and a following Resize(2) gives two default values and keeps the        *)
(* capacity when the capacity is >= 2.                                     *)
C11_Resize ==
    ~ub => \A o \in Alive : \A n \in Sizes :
              LET s == vec[o]
                  r == ResizeOp(s, Mem(heap), n)
                  old == LiveOf(o)
                  new == Live(r.s, r.m.h)
                  r0 == ResizeOp(s, Mem(heap), 0)
                  r2 == ResizeOp(r0.s, r0.m, 2)
              IN /\ ~r.m.bad
                 /\ GetSize(r.s) = n
                 /\ \A i \in 1 .. n : new[i] = IF i <= s.size THEN old[i] ELSE Default
                 /\ s.size > 0 =>
                       /\ ~r0.m.bad /\ ~r2.m.bad
                       /\ GetSize(r0.s) = 0 /\ GetCapacity(r0.s) = s.capacity
                       /\ s.capacity >= 2 =>
                             /\ Live(r2.s, r2.m.h) = <<Default, Default>>
                             /\ GetCapacity(r2.s) = s.capacity

(* C12: Reserve(newCap) never changes the size or the live elements; with  *)
(* newCap > capacity the capacity becomes exactly newCap, and with         *)
(* newCap <= capacity nothing changes.                                     *)
C12_Reserve ==
    ~ub => \A o \in Alive : \A n \in 0 .. MaxHeap + 1 :
              LET s == vec[o]
                  r == ReserveOp(s, Mem(heap), n)
              IN /\ ~r.m.bad
                 /\ GetSize(r.s) = GetSize(s)
                 /\ Live(r.s, r.m.h) = LiveOf(o)
                 /\ n > s.capacity => GetCapacity(r.s) = n
                 /\ n <= s.capacity => r.s = s /\ r.m.h = heap

(* C13: when the allocation of the new buffer fails in Insert or PushBack  *)
(* with size = capacity, in Resize with newSize > capacity or in Reserve   *)
(* with newCap > capacity, the call throws and the size, the capacity and  *)
(* the live elements (the buffer) are what they were before the call.      *)
C13_Unchanged(s, r) == r.m.thrown /\ ~r.m.bad /\ r.s = s /\ r.m.h = heap
C13_FailedGrowth ==
    ~ub => \A o \in Alive :
              LET s == vec[o]
                  m == MemAlloc(heap, FALSE)
              IN /\ s.size = s.capacity =>
                       /\ \A k \in 0 .. s.size, value \in Items(o, Values) :
                             C13_Unchanged(s, InsertOp(s, m, k, value))
                       /\ \A item \in Items(o, Values) :
                             C13_Unchanged(s, PushBackOp(s, m, item))
                 /\ \A n \in 0 .. MaxHeap + 1 :
                       n > s.capacity =>
                          /\ C13_Unchanged(s, ResizeOp(s, m, n))
                          /\ C13_Unchanged(s, ReserveOp(s, m, n))
C13_Reported ==
    last' = "bad_alloc" => vec' = vec /\ heap' = heap /\ ~ub'
C13_AllocationFailure == []C13_FailedGrowth /\ [][C13_Reported]_vars
\* a growing call on track.who has just failed: the other vector is empty, so
\* the failed allocation is not the temporary of a copy assignment
C13_Witness ==
    /\ last = "bad_alloc"
    /\ \E o \in Alive :
          /\ track.who = o
          /\ GetSize(vec[o]) = GetCapacity(vec[o]) /\ GetSize(vec[o]) >= 1
          /\ \A other \in Objs \ {o} : vec[other].alive /\ GetSize(vec[other]) = 0

(* C14: after a = std::move(b) with a and b distinct, a holds b's former   *)
(* live elements, a.GetSize() is b's former size, a.GetCapacity() is b's   *)
(* former capacity, and b has size 0 and capacity 0; a = std::move(a)      *)
(* leaves a unchanged.                                                     *)
C14_MoveAssign ==
    [][\A o, rhs \in Objs :
          MoveAssign(o, rhs) =>
             IF o = rhs THEN Obs(o)' = Obs(o)
             ELSE /\ LiveOf(o)' = LiveOf(rhs)
                  /\ GetSize(vec'[o]) = GetSize(vec[rhs])
                  /\ GetCapacity(vec'[o]) = GetCapacity(vec[rhs])
                  /\ GetSize(vec'[rhs]) = 0
                  /\ GetCapacity(vec'[rhs]) = 0]_vars

(* C15: after a = b, a's live elements and size equal b's and b is         *)
(* unchanged; a = a leaves a unchanged; and when the construction of the   *)
(* temporary copy fails, a's size, capacity and elements are what they     *)
(* were before the assignment.                                             *)
C15_Step ==
    \A o, rhs \in Objs, ok \in BOOLEAN :
       (last' \in {"operator=(const&)", "bad_alloc"} /\ CopyAssign(o, rhs, ok)) =>
          /\ ~ub'
          /\ Obs(rhs)' = Obs(rhs)
          /\ IF o = rhs THEN last' = "operator=(const&)"
             ELSE IF ~ok THEN last' = "bad_alloc" /\ Obs(o)' = Obs(o)
             ELSE /\ last' = "operator=(const&)"
                  /\ LiveOf(o)' = LiveOf(rhs)
                  /\ GetSize(vec'[o]) = GetSize(vec[rhs])
C15_CopyAssign == [][C15_Step]_vars
C15_Witness ==
    /\ last = "operator=(const&)"
    /\ LiveOf("a") = <<1>> /\ LiveOf("b") = <<1>>
    /\ GetCapacity(vec["a"]) = 1 /\ GetCapacity(vec["b"]) = 2
    /\ vec["a"].storage # vec["b"].storage

(* C16: the copy construction b(a) gives b the live elements of a in       *)
(* order, b.GetSize() = a.GetSize() and b.GetCapacity() = a.GetSize(),     *)
(* and leaves the size, the capacity and the elements of a unchanged.      *)
C16_CopyCtor ==
    ~ub => \A other \in Alive :
              LET r == CopyCtorOp(Mem(heap), vec[other]) IN
              /\ ~r.m.bad /\ r.s.alive
              /\ Live(r.s, r.m.h) = LiveOf(other)
              /\ GetSize(r.s) = GetSize(vec[other])
              /\ GetCapacity(r.s) = GetSize(vec[other])
              /\ Slots(r.m.h, r.s.storage) = GetSize(vec[other])
              /\ Live(vec[other], r.m.h) = LiveOf(other)
              /\ r.s.storage = Null \/ r.s.storage # vec[other].storage
C16_Witness ==
    /\ last = "SimpleVector(const&)"
    /\ GetSize(vec["a"]) = 1 /\ GetCapacity(vec["a"]) = 2
    /\ LiveOf("b") = LiveOf("a") /\ GetCapacity(vec["b"]) = 1
    /\ vec["a"].alive /\ vec["b"].alive

(* C17: Resize(n) changes the capacity only when n > capacity, and then    *)
(* the new capacity is the first value >= n of c, 2c, 4c, ... with c the   *)
(* old capacity (1 if it was 0); the live elements are kept and every slot *)
(* from the old size up to the new capacity holds the default value.       *)
RECURSIVE FirstAtLeast(_, _)
FirstAtLeast(c, n) == IF c >= n THEN c ELSE FirstAtLeast(2 * c, n)
C17_ResizeCapacity ==
    ~ub => \A o \in Alive : \A n \in Sizes \cup {SizeMax} :
              LET s == vec[o]
                  r == ResizeOp(s, Mem(heap), n)
                  old == LiveOf(o)
              IN /\ ~r.m.bad /\ ~r.m.hung
                 /\ n <= s.capacity => GetCapacity(r.s) = s.capacity
                 /\ n > s.capacity =>
                       /\ GetCapacity(r.s) =
                             FirstAtLeast(IF s.capacity = 0 THEN 1 ELSE s.capacity, n)
                       /\ \A i \in 0 .. GetCapacity(r.s) - 1 :
                             Rd(r.m, r.s.storage, i) =
                                IF i < s.size THEN old[i + 1] ELSE Default

(* C18: in every reachable state, for the source and the target of a move  *)
(* construction or a move assignment too, a vector whose capacity is 0     *)
(* holds no allocated buffer.                                              *)
C18_NoBufferAtCapacityZero ==
    \A o \in Alive :
       GetCapacity(vec[o]) = 0 => vec[o].storage = Null /\ Slots(heap, vec[o].storage) = 0

(* C19: in every reachable state the capacity of every vector is the       *)
(* number of slots allocated in its buffer, and PushBack, Insert at an     *)
(* offset in 0 .. size, Erase at an offset in 0 .. size - 1, Resize and    *)
(* Reserve never read or write a slot outside the buffer or through a null *)
(* buffer, on the source and on the target of a move too.                  *)
C19_MemorySafe ==
    ~ub => \A o \in Alive :
              LET s == vec[o]
                  m == Mem(heap)
              IN /\ GetCapacity(s) = Slots(heap, s.storage)
                 /\ \A item \in Items(o, Values) : ~PushBackOp(s, m, item).m.bad
                 /\ \A k \in 0 .. s.size, value \in Items(o, Values) :
                       ~InsertOp(s, m, k, value).m.bad
                 /\ \A k \in 0 .. s.size - 1 : ~EraseOp(s, m, k).m.bad
                 /\ \A n \in 0 .. MaxHeap + 1 :
                       ~ResizeOp(s, m, n).m.bad /\ ~ReserveOp(s, m, n).m.bad

====
